---------------------------- MODULE Spec2Model ----------------------------
(***************************************************************************)
(* Model of app.py: a Streamlit script that translates a source text to    *)
(* Turkish and, when a reference translation is given, scores the result   *)
(* with BLEU, BERTScore and COMET.                                         *)
(*                                                                         *)
(* Streamlit re-executes the whole script on every user interaction (a     *)
(* "rerun").  One rerun is modelled as a sequence of steps, one per        *)
(* blocking call to an external service; the code between two such calls   *)
(* is part of the step that precedes it.                                   *)
(*                                                                         *)
(* Texts are sequences of one-character strings.  Metric scores are        *)
(* binary floating point numbers; a score x is represented by the integer  *)
(* x * ScoreDen, ScoreDen a power of two, so that every modelled score is  *)
(* exactly representable and decimal ties of the formatting are real.      *)
(***************************************************************************)
EXTENDS Integers, Sequences, FiniteSets, TLC

VARIABLES
    cache,           \* st.cache_resource entry of load_components: <<>> or <<handles>>
    constructions,   \* number of times the body of load_components has run
    handles,         \* translator, bleu_metric, bert_metric, comet_metric of this rerun
    source_text,     \* value of the source text area
    reference_text,  \* value of the reference text area
    button,          \* value returned by st.button("Translate") in this rerun
    pc,              \* position of the script
    translation,     \* script variable translation: <<>> (unbound) or <<text>>
    bleu_score,      \* script variable bleu_score: <<>> or <<result>>
    bert_score,      \* script variable bert_score: <<>> or <<result>>
    comet_score,     \* script variable comet_score: <<>> or <<result>>
    display,         \* elements rendered by this rerun, in order
    calls,           \* calls to the translator and the metrics made by this rerun
    snap             \* history variable: <<>> or one completed trigger action,
                     \* with a flag telling whether a rerun has started since

vars == <<cache, constructions, handles, source_text, reference_text, button,
          pc, translation, bleu_score, bert_score, comet_score, display,
          calls, snap>>

(***************************************************************************)
(* Bounds and input domains                                                *)
(***************************************************************************)
\* cap on the number of executions of the body of load_components
MaxBuilds == 2

\* score x is represented by x * ScoreDen
ScoreDen == 256

Whitespace == {" ", "\n"}

SourceInputs == { <<>>, <<" ">>, <<" ", "a">>, <<"a", " ", "b", "\n">> }

ReferenceInputs == { <<>>, <<"\n", " ">>, <<"c">>, <<" ", "c", "d", " ">> }

\* what the translation pipeline can return: a list of candidates
TranslatorOutputs ==
    { << [translation_text |-> <<"x">>] >>,
      << [translation_text |-> <<"y", "z">>], [translation_text |-> <<"w">>] >> }

BleuOutputs  == { [score  |-> n]     : n \in {0, 96, 25587} }
BertOutputs  == { [f1     |-> <<n>>] : n \in {224, 255} }
CometOutputs == { [scores |-> <<n>>] : n \in {-1, 160, 224} }

\* a call either returns a value or raises
Returned(v) == [ok |-> TRUE, value |-> <<v>>]
Raised      == [ok |-> FALSE, value |-> <<>>]

(***************************************************************************)
(* str.strip()                                                             *)
(***************************************************************************)
RECURSIVE LStrip(_)
LStrip(s) ==
    IF s = <<>> THEN s
    ELSE IF Head(s) \in Whitespace THEN LStrip(Tail(s)) ELSE s

RECURSIVE RStrip(_)
RStrip(s) ==
    IF s = <<>> THEN s
    ELSE IF s[Len(s)] \in Whitespace THEN RStrip(SubSeq(s, 1, Len(s) - 1)) ELSE s

Strip(s) == RStrip(LStrip(s))

(***************************************************************************)
(* f"{x:.2f}" for x = n / ScoreDen: correctly rounded to hundredths, ties  *)
(* to even, the sign kept even when the rounded magnitude is zero.         *)
(***************************************************************************)
Digit == <<"0", "1", "2", "3", "4", "5", "6", "7", "8", "9">>

RECURSIVE Decimal(_)
Decimal(k) ==
    IF k < 10 THEN <<Digit[k + 1]>>
    ELSE Decimal(k \div 10) \o <<Digit[(k % 10) + 1]>>

Abs(n) == IF n < 0 THEN -n ELSE n

\* faulty form: the digits after the second decimal are dropped
HundredthsTruncated(n) == (Abs(n) * 100) \div ScoreDen

Hundredths(n) ==
    LET a == Abs(n) * 100
        q == a \div ScoreDen
        r == a % ScoreDen
    IN  IF 2 * r > ScoreDen \/ (2 * r = ScoreDen /\ q % 2 = 1) THEN q + 1 ELSE q

Format2f(n) ==
    LET h == Hundredths(n)
    IN  (IF n < 0 THEN <<"-">> ELSE <<>>)
        \o Decimal(h \div 100)
        \o <<".", Digit[((h \div 10) % 10) + 1], Digit[(h % 10) + 1]>>

(***************************************************************************)
(* Rendered elements                                                       *)
(***************************************************************************)
Element(kind, label, value) == [kind |-> kind, label |-> label, value |-> value]

Warning   == Element("warning", "Please enter some text to translate.", <<>>)
Info      == Element("info", "Add a reference translation to compute quality metrics.", <<>>)
Footer    == Element("markdown", "footer", <<>>)
Exception == Element("exception", "", <<>>)
TextArea(t)      == Element("text_area", "Model translation", t)
Metric(label, v) == Element("metric", label, v)

(***************************************************************************)
(* Initial state: the process has started, no session has run the script.  *)
(***************************************************************************)
Init ==
    /\ cache = <<>>
    /\ constructions = 0
    /\ handles = <<>>
    /\ source_text = <<>>
    /\ reference_text = <<>>
    /\ button = FALSE
    /\ pc = "idle"
    /\ translation = <<>>
    /\ bleu_score = <<>>
    /\ bert_score = <<>>
    /\ comet_score = <<>>
    /\ display = <<>>
    /\ calls = <<>>
    /\ snap = <<>>

(***************************************************************************)
(* A user interaction starts a rerun: the script runs from the top in a    *)
(* fresh namespace and the page is rebuilt.  Clicking Translate makes      *)
(* st.button return True in this rerun only.                               *)
(***************************************************************************)
\* faulty form: the translation field of the previous page stays on the new page
RerunStale(src, ref, clicked) ==
    /\ pc \in {"idle", "done"}
    /\ cache # <<>> \/ constructions < MaxBuilds
    /\ source_text' = src
    /\ reference_text' = ref
    /\ button' = clicked
    /\ handles' = <<>>
    /\ translation' = <<>>
    /\ bleu_score' = <<>>
    /\ bert_score' = <<>>
    /\ comet_score' = <<>>
    /\ display' = IF display # <<>> /\ display[1].kind = "text_area"
                  THEN <<display[1]>> ELSE <<>>
    /\ calls' = <<>>
    /\ pc' = "load"
    /\ snap' = IF snap = <<>> THEN snap ELSE <<[snap[1] EXCEPT !.later = TRUE]>>
    /\ UNCHANGED <<cache, constructions>>

Rerun(src, ref, clicked) ==
    /\ pc \in {"idle", "done"}
    /\ cache # <<>> \/ constructions < MaxBuilds
    /\ source_text' = src
    /\ reference_text' = ref
    /\ button' = clicked
    /\ handles' = <<>>
    /\ translation' = <<>>
    /\ bleu_score' = <<>>
    /\ bert_score' = <<>>
    /\ comet_score' = <<>>
    /\ display' = <<>>
    /\ calls' = <<>>
    /\ pc' = "load"
    /\ snap' = IF snap = <<>> THEN snap ELSE <<[snap[1] EXCEPT !.later = TRUE]>>
    /\ UNCHANGED <<cache, constructions>>

(***************************************************************************)
(* Line 40: load_components() under st.cache_resource.  A hit returns the  *)
(* cached tuple.  A miss runs the body; if the body raises, nothing is     *)
(* cached and the script stops with the exception shown.                   *)
(***************************************************************************)
NewHandles(k) ==
    [translator |-> 4 * k + 1, bleu |-> 4 * k + 2,
     bertscore |-> 4 * k + 3, comet |-> 4 * k + 4]

\* faulty form: no memoization, the body runs on every invocation
load_componentsUncached(ok) ==
    /\ pc = "load"
    /\ constructions' = constructions + 1
    /\ IF ok
       THEN /\ cache' = <<NewHandles(constructions)>>
            /\ handles' = cache'
            /\ pc' = "button"
            /\ UNCHANGED display
       ELSE /\ display' = Append(display, Exception)
            /\ pc' = "done"
            /\ UNCHANGED <<cache, handles>>
    /\ UNCHANGED <<source_text, reference_text, button, translation,
                   bleu_score, bert_score, comet_score, calls, snap>>

load_components(ok) ==
    /\ pc = "load"
    /\ IF cache # <<>>
       THEN /\ handles' = cache
            /\ pc' = "button"
            /\ UNCHANGED <<cache, constructions, display>>
       ELSE /\ constructions' = constructions + 1
            /\ IF ok
               THEN /\ cache' = <<NewHandles(constructions)>>
                    /\ handles' = cache'
                    /\ pc' = "button"
                    /\ UNCHANGED display
               ELSE /\ display' = Append(display, Exception)
                    /\ pc' = "done"
                    /\ UNCHANGED <<cache, handles>>
    /\ UNCHANGED <<source_text, reference_text, button, translation,
                   bleu_score, bert_score, comet_score, calls, snap>>

(***************************************************************************)
(* Lines 77-79 (and 99 when the handler is not entered or only warns).     *)
(***************************************************************************)
\* faulty form: the source text is tested without trimming
TranslateButtonNoStrip ==
    /\ pc = "button"
    /\ IF ~button
       THEN /\ display' = Append(display, Footer)
            /\ pc' = "done"
       ELSE IF source_text = <<>>
       THEN /\ display' = display \o <<Warning, Footer>>
            /\ pc' = "done"
       ELSE /\ pc' = "translate"
            /\ UNCHANGED display
    /\ UNCHANGED <<cache, constructions, handles, source_text, reference_text,
                   button, translation, bleu_score, bert_score, comet_score,
                   calls, snap>>

\* faulty form: the else of the empty-source test is missing
TranslateButtonNoElse ==
    /\ pc = "button"
    /\ IF ~button
       THEN /\ display' = Append(display, Footer)
            /\ pc' = "done"
       ELSE /\ display' = IF Strip(source_text) = <<>>
                          THEN Append(display, Warning) ELSE display
            /\ pc' = "translate"
    /\ UNCHANGED <<cache, constructions, handles, source_text, reference_text,
                   button, translation, bleu_score, bert_score, comet_score,
                   calls, snap>>

TranslateButton ==
    /\ pc = "button"
    /\ IF ~button
       THEN /\ display' = Append(display, Footer)
            /\ pc' = "done"
       ELSE IF Strip(source_text) = <<>>
       THEN /\ display' = display \o <<Warning, Footer>>
            /\ pc' = "done"
       ELSE /\ pc' = "translate"
            /\ UNCHANGED display
    /\ UNCHANGED <<cache, constructions, handles, source_text, reference_text,
                   button, translation, bleu_score, bert_score, comet_score,
                   calls, snap>>

(***************************************************************************)
(* Lines 82-86 (and 97, 99 without a reference).                           *)
(***************************************************************************)
TranslatorCall(r) ==
    [svc |-> "translator", handle |-> handles[1].translator,
     args |-> [text |-> Strip(source_text)], result |-> r]

\* faulty form: the reference text is tested without trimming
TranslateNoStrip(r) ==
    /\ pc = "translate"
    /\ calls' = Append(calls, TranslatorCall(r))
    /\ IF ~r.ok
       THEN /\ display' = Append(display, Exception)
            /\ pc' = "done"
            /\ UNCHANGED translation
       ELSE LET t == r.value[1][1].translation_text
            IN  /\ translation' = <<t>>
                /\ IF reference_text # <<>>
                   THEN /\ display' = Append(display, TextArea(t))
                        /\ pc' = "bleu"
                   ELSE /\ display' = display \o <<TextArea(t), Info, Footer>>
                        /\ pc' = "done"
    /\ UNCHANGED <<cache, constructions, handles, source_text, reference_text,
                   button, bleu_score, bert_score, comet_score, snap>>

\* faulty form: the translation field is rendered only after the scoring block
TranslateLate(r) ==
    /\ pc = "translate"
    /\ calls' = Append(calls, TranslatorCall(r))
    /\ IF ~r.ok
       THEN /\ display' = Append(display, Exception)
            /\ pc' = "done"
            /\ UNCHANGED translation
       ELSE LET t == r.value[1][1].translation_text
            IN  /\ translation' = <<t>>
                /\ IF Strip(reference_text) # <<>>
                   THEN /\ UNCHANGED display
                        /\ pc' = "bleu"
                   ELSE /\ display' = display \o <<TextArea(t), Info, Footer>>
                        /\ pc' = "done"
    /\ UNCHANGED <<cache, constructions, handles, source_text, reference_text,
                   button, bleu_score, bert_score, comet_score, snap>>

Translate(r) ==
    /\ pc = "translate"
    /\ calls' = Append(calls, TranslatorCall(r))
    /\ IF ~r.ok
       THEN /\ display' = Append(display, Exception)
            /\ pc' = "done"
            /\ UNCHANGED translation
       ELSE LET t == r.value[1][1].translation_text
            IN  /\ translation' = <<t>>
                /\ IF Strip(reference_text) # <<>>
                   THEN /\ display' = Append(display, TextArea(t))
                        /\ pc' = "bleu"
                   ELSE /\ display' = display \o <<TextArea(t), Info, Footer>>
                        /\ pc' = "done"
    /\ UNCHANGED <<cache, constructions, handles, source_text, reference_text,
                   button, bleu_score, bert_score, comet_score, snap>>

(***************************************************************************)
(* Line 88                                                                 *)
(***************************************************************************)
BleuCall(r) ==
    [svc |-> "bleu", handle |-> handles[1].bleu,
     args |-> [predictions |-> <<translation[1]>>,
               references |-> << <<Strip(reference_text)>> >>],
     result |-> r]

\* faulty form: a failure of the BLEU call is swallowed and scored as zero
ComputeBleuSwallowed(r) ==
    /\ pc = "bleu"
    /\ calls' = Append(calls, BleuCall(r))
    /\ bleu_score' = IF r.ok THEN r.value ELSE <<[score |-> 0]>>
    /\ pc' = "bert"
    /\ UNCHANGED <<cache, constructions, handles, source_text, reference_text,
                   button, translation, bert_score, comet_score, display, snap>>

ComputeBleu(r) ==
    /\ pc = "bleu"
    /\ calls' = Append(calls, BleuCall(r))
    /\ IF r.ok
       THEN /\ bleu_score' = r.value
            /\ pc' = "bert"
            /\ UNCHANGED display
       ELSE /\ display' = Append(display, Exception)
            /\ pc' = "done"
            /\ UNCHANGED bleu_score
    /\ UNCHANGED <<cache, constructions, handles, source_text, reference_text,
                   button, translation, bert_score, comet_score, snap>>

(***************************************************************************)
(* Line 89                                                                 *)
(***************************************************************************)
BertCall(r) ==
    [svc |-> "bertscore", handle |-> handles[1].bertscore,
     args |-> [predictions |-> <<translation[1]>>,
               references |-> <<Strip(reference_text)>>,
               lang |-> "tr"],
     result |-> r]

ComputeBert(r) ==
    /\ pc = "bert"
    /\ calls' = Append(calls, BertCall(r))
    /\ IF r.ok
       THEN /\ bert_score' = r.value
            /\ pc' = "comet"
            /\ UNCHANGED display
       ELSE /\ display' = Append(display, Exception)
            /\ pc' = "done"
            /\ UNCHANGED bert_score
    /\ UNCHANGED <<cache, constructions, handles, source_text, reference_text,
                   button, translation, bleu_score, comet_score, snap>>

(***************************************************************************)
(* Lines 90-95 and 99                                                      *)
(***************************************************************************)
\* faulty form: COMET receives the source text as typed
CometCallRawSource(r) ==
    [svc |-> "comet", handle |-> handles[1].comet,
     args |-> [predictions |-> <<translation[1]>>,
               references |-> <<Strip(reference_text)>>,
               sources |-> <<source_text>>],
     result |-> r]

CometCall(r) ==
    [svc |-> "comet", handle |-> handles[1].comet,
     args |-> [predictions |-> <<translation[1]>>,
               references |-> <<Strip(reference_text)>>,
               sources |-> <<Strip(source_text)>>],
     result |-> r]

ScoreColumns(bleu, bert, comet) ==
    << Metric("BLEU", Format2f(bleu.score)),
       Metric("BERTScore F1", Format2f(bert.f1[1] * 100)),
       Metric("COMET", Format2f(comet.scores[1])) >>

ComputeComet(r) ==
    /\ pc = "comet"
    /\ calls' = Append(calls, CometCall(r))
    /\ IF r.ok
       THEN /\ comet_score' = r.value
            /\ display' = display
                          \o ScoreColumns(bleu_score[1], bert_score[1], r.value[1])
                          \o <<Footer>>
       ELSE /\ display' = Append(display, Exception)
            /\ UNCHANGED comet_score
    /\ pc' = "done"
    /\ UNCHANGED <<cache, constructions, handles, source_text, reference_text,
                   button, translation, bleu_score, bert_score, snap>>

(***************************************************************************)
(* Specification                                                           *)
(***************************************************************************)
Step ==
    \/ \E ok \in BOOLEAN : load_components(ok)
    \/ TranslateButton
    \/ \E r \in {Returned(v) : v \in TranslatorOutputs} \cup {Raised} : Translate(r)
    \/ \E r \in {Returned(v) : v \in BleuOutputs} \cup {Raised} : ComputeBleu(r)
    \/ \E r \in {Returned(v) : v \in BertOutputs} \cup {Raised} : ComputeBert(r)
    \/ \E r \in {Returned(v) : v \in CometOutputs} \cup {Raised} : ComputeComet(r)

Next ==
    \/ \E src \in SourceInputs, ref \in ReferenceInputs, clicked \in BOOLEAN :
          Rerun(src, ref, clicked)
    \/ Step

Spec == Init /\ [][Next]_vars

\* every call to an external service eventually returns or raises
FairSpec == Spec /\ WF_vars(Step)

(***************************************************************************)
(* The same program with a history variable: at the end of any trigger     *)
(* action whose handler ran, the action may be recorded, once.             *)
(***************************************************************************)
Snapshot ==
    /\ pc = "done"
    /\ button
    /\ handles # <<>>
    /\ snap = <<>>
    /\ snap' = << [source_text |-> source_text, reference_text |-> reference_text,
                   calls |-> calls, display |-> display, later |-> FALSE] >>
    /\ UNCHANGED <<cache, constructions, handles, source_text, reference_text,
                   button, pc, translation, bleu_score, bert_score,
                   comet_score, display, calls>>

NextH == Next \/ Snapshot

SpecH == Init /\ [][NextH]_vars

(***************************************************************************)
(* Vocabulary of the properties                                            *)
(***************************************************************************)
\* the handler of the Translate button has run to its end in this rerun
HandlerDone == pc = "done" /\ button /\ handles # <<>>

BlankText(s) == \A i \in 1..Len(s) : s[i] \in Whitespace

\* t is s without its leading and trailing whitespace
IsTrimOf(t, s) ==
    /\ t # <<>> => t[1] \notin Whitespace /\ t[Len(t)] \notin Whitespace
    /\ \E i \in 0..Len(s) :
          /\ i + Len(t) <= Len(s)
          /\ BlankText(SubSeq(s, 1, i))
          /\ SubSeq(s, i + 1, i + Len(t)) = t
          /\ BlankText(SubSeq(s, i + Len(t) + 1, Len(s)))

Kinds(d) == [i \in 1..Len(d) |-> d[i].kind]

Shown(kind) == {i \in 1..Len(display) : display[i].kind = kind}

MetricLabels == <<"BLEU", "BERTScore F1", "COMET">>

MetricSvcs == {"bleu", "bertscore", "comet"}

CallOrder == <<"translator", "bleu", "bertscore", "comet">>

CallsTo(svc) == {i \in 1..Len(calls) : calls[i].svc = svc}

NotRendered == <<"not rendered">>

\* the content of the translation output field
TranslationOut ==
    IF Shown("text_area") = {} THEN NotRendered
    ELSE display[CHOOSE i \in Shown("text_area") : TRUE].value

\* the content of the score field of a metric
ScoreOut(label) ==
    LET at == {i \in Shown("metric") : display[i].label = label}
    IN  IF at = {} THEN NotRendered ELSE display[CHOOSE i \in at : TRUE].value

\* the text returned by this action's translator call
Translated == calls[1].result.value[1][1].translation_text

IsDigit(c) == \E d \in 1..10 : Digit[d] = c

DigitValue(c) == (CHOOSE d \in 1..10 : Digit[d] = c) - 1

RECURSIVE NumberOf(_)
NumberOf(s) ==
    IF s = <<>> THEN 0
    ELSE 10 * NumberOf(SubSeq(s, 1, Len(s) - 1)) + DigitValue(s[Len(s)])

Unsigned(s) == IF s # <<>> /\ Head(s) = "-" THEN Tail(s) ELSE s

\* s reads -?d+.dd
TwoDecimals(s) ==
    LET u == Unsigned(s)
    IN  /\ Len(u) >= 4
        /\ u[Len(u) - 2] = "."
        /\ \A i \in (1..Len(u)) \ {Len(u) - 2} : IsDigit(u[i])

\* s is the two-decimal rendering of n / ScoreDen: it is off by at most
\* half a hundredth and carries the sign of n
Renders(s, n) ==
    /\ TwoDecimals(s)
    /\ (Head(s) = "-") <=> (n < 0)
    /\ LET u == Unsigned(s)
           h == 100 * NumberOf(SubSeq(u, 1, Len(u) - 3))
                + NumberOf(SubSeq(u, Len(u) - 1, Len(u)))
       IN  2 * Abs(h * ScoreDen - 100 * Abs(n)) <= ScoreDen

MetricElems == SelectSeq(display, LAMBDA e : e.kind = "metric")

\* the value returned by this action's call to svc
ResultOf(svc) == calls[CHOOSE i \in CallsTo(svc) : TRUE].result.value[1]

AllReturned == \A i \in 1..Len(calls) : calls[i].result.ok

MetricRaised == \E i \in 1..Len(calls) : calls[i].svc \in MetricSvcs /\ ~calls[i].result.ok

\* the strings the specification's glossary gives for a score that was not
\* computed and for a score that is not available
NotComputed == <<"-">>
Unavailable == <<"N", "/", "A">>

(***************************************************************************)
(* C1                                                                      *)
(***************************************************************************)
\* C1, as stated: after a trigger action with an empty or whitespace-only
\* source the translation output is the empty text, each of the three score
\* outputs is the placeholder, and no service was called.
C1_EmptyTranslationAndPlaceholders ==
    HandlerDone /\ BlankText(source_text) =>
        /\ calls = <<>>
        /\ TranslationOut = <<>>
        /\ \A k \in 1..3 : ScoreOut(MetricLabels[k]) = NotComputed

\* C1, amended: after a trigger action with an empty or whitespace-only
\* source the page shows the input warning, no translation field and no
\* score field, and neither the translator nor any metric was called.
C1_BlankSourceWarnsWithoutCalls ==
    HandlerDone /\ BlankText(source_text) =>
        /\ calls = <<>>
        /\ Shown("warning") # {}
        /\ Shown("text_area") = {}
        /\ Shown("metric") = {}
        /\ translation = <<>>

C1_Witness ==
    HandlerDone /\ source_text = <<" ">> /\ Shown("warning") # {} /\ calls = <<>>

(***************************************************************************)
(* C2                                                                      *)
(***************************************************************************)
\* C2, as stated: after a trigger action with a non-blank source and a blank
\* reference (the translator having returned) the translation is shown, each
\* of the three score outputs is the placeholder, and no metric was called.
C2_TranslationWithPlaceholders ==
    (HandlerDone /\ ~BlankText(source_text) /\ BlankText(reference_text)
        /\ calls # <<>> /\ calls[1].result.ok) =>
        /\ TranslationOut = Translated
        /\ \A k \in 1..3 : ScoreOut(MetricLabels[k]) = NotComputed
        /\ \A svc \in MetricSvcs : CallsTo(svc) = {}

\* C2, amended: after a trigger action with a non-blank source and a blank
\* reference no metric was called and no score field is shown; when the
\* translator returned, the page shows the translation and the notice asking
\* for a reference.  In every state a score is shown or held only if the
\* reference of this same action is non-blank.
C2_NoReferenceNoScores ==
    /\ (HandlerDone /\ ~BlankText(source_text) /\ BlankText(reference_text)) =>
          /\ \A svc \in MetricSvcs : CallsTo(svc) = {}
          /\ Shown("metric") = {}
          /\ Cardinality(CallsTo("translator")) = 1
          /\ calls[1].result.ok =>
                /\ TranslationOut = Translated
                /\ Shown("info") # {}
    /\ (Shown("metric") # {} \/ bleu_score # <<>> \/ bert_score # <<>>
            \/ comet_score # <<>>) =>
          button /\ ~BlankText(reference_text)

C2_Witness ==
    /\ HandlerDone
    /\ ~BlankText(source_text)
    /\ reference_text = <<"\n", " ">>
    /\ Shown("info") # {}
    /\ TranslationOut = <<"y", "z">>

(***************************************************************************)
(* C3                                                                      *)
(***************************************************************************)
\* C3: when a metric call raised during a trigger action, all three metrics
\* were nevertheless called, every metric that returned has its formatted
\* score shown, and each metric that raised shows the unavailable sentinel.
C3_MetricFailureIsolated ==
    pc = "done" /\ MetricRaised =>
        \A k \in 1..3 :
            LET svc == CallOrder[k + 1]
            IN  /\ CallsTo(svc) # {}
                /\ IF calls[CHOOSE i \in CallsTo(svc) : TRUE].result.ok
                   THEN TwoDecimals(ScoreOut(MetricLabels[k]))
                   ELSE ScoreOut(MetricLabels[k]) = Unavailable

(***************************************************************************)
(* C4                                                                      *)
(***************************************************************************)
\* C4: after a trigger action in which the translator and all three metrics
\* returned, exactly three score fields are shown, labelled BLEU,
\* BERTScore F1 and COMET, and each reads, with two decimals, the value its
\* own metric returned in this action (the BERTScore F1 as a percentage).
C4_ThreeFormattedScores ==
    HandlerDone /\ Len(calls) = 4 /\ AllReturned =>
        /\ Len(MetricElems) = 3
        /\ \A k \in 1..3 : MetricElems[k].label = MetricLabels[k]
        /\ Renders(MetricElems[1].value, ResultOf("bleu").score)
        /\ Renders(MetricElems[2].value, ResultOf("bertscore").f1[1] * 100)
        /\ Renders(MetricElems[3].value, ResultOf("comet").scores[1])

C4_Witness ==
    /\ HandlerDone
    /\ Len(calls) = 4
    /\ AllReturned
    /\ ScoreOut("BLEU") = <<"9", "9", ".", "9", "5">>
    /\ ScoreOut("BERTScore F1") = <<"8", "7", ".", "5", "0">>
    /\ ScoreOut("COMET") = <<"-", "0", ".", "0", "0">>

Results(c) == [i \in 1..Len(c) |-> c[i].result]

\* C6: a completed trigger action whose source text, reference text and
\* service responses equal those of a recorded earlier action made the same
\* calls and shows the same page, whatever happened in between and before.
C6_NoCarryOver ==
    (HandlerDone /\ snap # <<>>
        /\ snap[1].source_text = source_text
        /\ snap[1].reference_text = reference_text
        /\ Results(snap[1].calls) = Results(calls)) =>
        /\ snap[1].calls = calls
        /\ snap[1].display = display

C6_Witness ==
    /\ HandlerDone
    /\ snap # <<>>
    /\ snap[1].later
    /\ snap[1].source_text = source_text
    /\ snap[1].reference_text = reference_text
    /\ Len(calls) = 4
    /\ Results(snap[1].calls) = Results(calls)
    /\ AllReturned

(***************************************************************************)
(* C7                                                                      *)
(***************************************************************************)
\* C7: when a metric call raised, it is the last call of the action (the
\* metrics after it in the order BLEU, BERTScore, COMET were not called), the
\* page ends with the exception and shows no score field.
C7_MetricFailurePropagates ==
    pc = "done" /\ MetricRaised =>
        /\ ~calls[Len(calls)].result.ok
        /\ \A i \in 1..(Len(calls) - 1) : calls[i].result.ok
        /\ \A k \in 1..4 : k > Len(calls) => CallsTo(CallOrder[k]) = {}
        /\ Shown("metric") = {}
        /\ display[Len(display)].kind = "exception"

C7_Witness ==
    /\ pc = "done"
    /\ Len(calls) = 2
    /\ calls[2].svc = "bleu"
    /\ ~calls[2].result.ok
    /\ Shown("exception") # {}

(***************************************************************************)
(* C8                                                                      *)
(***************************************************************************)
\* C8: the translator is called with the trimmed source text; every metric
\* is called with the one-element list of this action's translation and a
\* one-element list of the trimmed reference, nested once more for BLEU
\* only; COMET alone also receives the trimmed source text.
C8_CallArguments ==
    \A i \in 1..Len(calls) :
        LET c == calls[i]
            a == c.args
        IN  CASE c.svc = "translator" ->
                   /\ DOMAIN a = {"text"}
                   /\ IsTrimOf(a.text, source_text)
              [] c.svc = "bleu" ->
                   /\ DOMAIN a = {"predictions", "references"}
                   /\ a.predictions = <<Translated>>
                   /\ Len(a.references) = 1
                   /\ Len(a.references[1]) = 1
                   /\ IsTrimOf(a.references[1][1], reference_text)
              [] c.svc = "bertscore" ->
                   /\ DOMAIN a = {"predictions", "references", "lang"}
                   /\ a.predictions = <<Translated>>
                   /\ Len(a.references) = 1
                   /\ IsTrimOf(a.references[1], reference_text)
              [] c.svc = "comet" ->
                   /\ DOMAIN a = {"predictions", "references", "sources"}
                   /\ a.predictions = <<Translated>>
                   /\ Len(a.references) = 1
                   /\ IsTrimOf(a.references[1], reference_text)
                   /\ Len(a.sources) = 1
                   /\ IsTrimOf(a.sources[1], source_text)

C8_Witness ==
    /\ pc = "done"
    /\ Len(calls) = 4
    /\ source_text = <<"a", " ", "b", "\n">>
    /\ reference_text = <<" ", "c", "d", " ">>
    /\ calls[4].args.sources = << <<"a", " ", "b">> >>
    /\ calls[2].args.references = << << <<"c", "d">> >> >>

(***************************************************************************)
(* C9                                                                      *)
(***************************************************************************)
\* C9: the calls of an action are made in the order translator, BLEU,
\* BERTScore, COMET, each at most once; a completed action with a non-blank
\* source called the translator exactly once; whenever a metric is about to
\* be called or has been called the translation is on the page, and it is
\* still there when the action has ended, whether or not a metric raised.
C9_TranslationShownBeforeScoring ==
    /\ Len(calls) <= 4
    /\ \A i \in 1..Len(calls) : calls[i].svc = CallOrder[i]
    /\ (HandlerDone /\ ~BlankText(source_text)) =>
          Cardinality(CallsTo("translator")) = 1
    /\ (pc \in {"bleu", "bert", "comet"} \/ Len(calls) >= 2) =>
          TranslationOut = Translated
    /\ (pc = "done" /\ calls # <<>> /\ calls[1].result.ok) =>
          TranslationOut = Translated

C9_Witness ==
    /\ pc = "done"
    /\ Len(calls) = 3
    /\ ~calls[3].result.ok
    /\ TranslationOut = <<"x">>
    /\ Shown("exception") # {}

(***************************************************************************)
(* C10                                                                     *)
(***************************************************************************)
OutWarning == Kinds(display) = <<"warning", "markdown">>

OutNotice == Kinds(display) = <<"text_area", "info", "markdown">>

OutScores == Kinds(display) = <<"text_area", "metric", "metric", "metric", "markdown">>

OutFailure ==
    /\ display # <<>>
    /\ display[Len(display)].kind = "exception"
    /\ \A i \in 1..(Len(display) - 1) : display[i].kind = "text_area"

OutcomeCount ==
    Cardinality({o \in {"warning", "notice", "scores", "failure"} :
        \/ o = "warning" /\ OutWarning
        \/ o = "notice"  /\ OutNotice
        \/ o = "scores"  /\ OutScores
        \/ o = "failure" /\ OutFailure})

\* C10: with every service call returning or raising, a trigger action that
\* has started reaches its end, and at its end the page is exactly one of:
\* the input warning, the translation with the notice, the translation with
\* three scores, a propagated failure; no service was called twice.
C10_ActionCompletes ==
    /\ [](pc = "done" /\ button =>
            /\ OutcomeCount = 1
            /\ \A svc \in MetricSvcs \cup {"translator"} :
                  Cardinality(CallsTo(svc)) <= 1)
    /\ (pc = "load" /\ button) ~> (pc = "done")

C10_Witness ==
    /\ pc = "done"
    /\ button
    /\ OutScores
    /\ Len(calls) = 4

=============================================================================
